---- MODULE Spec2Model ----
(***************************************************************************)
(* A model of pixi-spatial-hash: the SpatialHash grid (cell-key            *)
(* computation, put / remove / update / search / reset).                   *)
(*                                                                         *)
(* Coordinates and cell sizes are integers: Math.floor(v * (1 / cellSize)) *)
(* is the floor division v \div cellSize, except where the product, in     *)
(* double precision, falls below the integer v / cellSize; this happens    *)
(* for cellSize = 49 and v = 49 or 98, and for no other cell size and      *)
(* coordinate of this model.                                               *)
(* A cell key, the string "cx|cy" of hashPoint, is the pair <<cx, cy>>.    *)
(* A rectangle is a record [x, y, width, height] as PIXI.Rectangle, whose  *)
(* left / right / top / bottom are derived from it.                        *)
(***************************************************************************)
EXTENDS Integers, Sequences, FiniteSets, TLC

\* ------------------------------------------------------------------ bounds

\* Cell sizes of the model are 1..MaxCellSize.
MaxCellSize == 2

\* Number of operations in one behaviour.
MaxOps == 3

\* ------------------------------------------------------------------ inputs

\* The display-objects put into the hash (identity-compared handles).
Objects == {"a", "b"}

CellSizes == 1..MaxCellSize

\* The coordinate window of the model: x in 0..1 and y in -1..0. With cell
\* size 1 a rectangle can span two cells on each axis; with cell size 2 the
\* points x = 0 and x = 1 share a cell, and y = -1 lies in the negative cell.
XCoords == 0..1

YCoords == (-1)..0

\* Well-formed rectangles (width >= 0, height >= 0) inside the window.
Rects ==
    {r \in [x : XCoords, y : YCoords, width : 0..1, height : 0..1] :
        r.x + r.width \in XCoords /\ r.y + r.height \in YCoords}

\* A display-object that holds nothing has the empty rectangle as bounds.
EmptyRect == [x |-> 0, y |-> 0, width |-> 0, height |-> 0]

\* A JavaScript Set keeps its members in insertion order, each once: it is
\* the sequence of its members.
Elems(s) == {s[i] : i \in 1..Len(s)}

\* An array's push in place of Set.prototype.add: a member can repeat.
SetAddPush(s, v) == Append(s, v)

\* Set.prototype.add
SetAdd(s, v) == IF v \in Elems(s) THEN s ELSE Append(s, v)

\* Set.prototype.delete
SetDelete(s, v) == SelectSeq(s, LAMBDA u : u # v)

\* --------------------------------------------------------------- rectangle

Left(r) == r.x

Right(r) == r.x + r.width

Top(r) == r.y

Bottom(r) == r.y + r.height

\* An overlap test that leaves the edges out.
IntersectsStrict(objectBounds, bounds) ==
    /\ Right(objectBounds) > Left(bounds)
    /\ Left(objectBounds) < Right(bounds)
    /\ Bottom(objectBounds) > Top(bounds)
    /\ Top(objectBounds) < Bottom(bounds)

\* The inclusive overlap test of search.
Intersects(objectBounds, bounds) ==
    /\ Right(objectBounds) >= Left(bounds)
    /\ Left(objectBounds) <= Right(bounds)
    /\ Bottom(objectBounds) >= Top(bounds)
    /\ Top(objectBounds) <= Bottom(bounds)

\* ------------------------------------------------------------------- state

VARIABLES
    cellSize,    \* SpatialHash.cellSize
    buckets,     \* SpatialHash.buckets: cell key -> Set of objects
    objBounds,   \* what object.getBounds() returns now, per object
    given,       \* history: per object, the bounds passed to put / update
                 \* since it was last removed, oldest first
    last,        \* history: the last operation, its arguments and what it
                 \* returned
    nOps,        \* history: operations performed so far
    loop,        \* the call of hashBounds in progress, when its loops are
                 \* followed step by step; Idle otherwise
    children,            \* scene graph: per display-object, its children
    cachedBounds,        \* what object.getBounds(true) returns: the bounds as
                         \* last calculated
    hashTargets,         \* SpatialHashSystem.hashTargets
    updateBeforeRender,  \* SpatialHashSystem.updateBeforeRender
    updateTicker,        \* SpatialHashSystem.updateTicker
    skipBoundsUpdate,    \* SpatialHashSystem.skipBoundsUpdate
    listeners,           \* per ticker, how many times update is added to it
    updates,             \* history: runs of SpatialHashSystem.update so far
    staticCellSize,      \* SpatialHashSystem.SCENE_CELL_SIZE, the static field
    libBuckets,          \* buckets of a lib/SpatialHash.js grid that is given
                         \* the same calls as the SpatialHash
    libGiven             \* history: as given, for the lib/SpatialHash.js grid

\* The variables of the SpatialHashSystem and of the scene it hashes.
sysVars ==
    <<children, cachedBounds, hashTargets, updateBeforeRender, updateTicker,
      skipBoundsUpdate, listeners, updates>>

\* The static field of the system class and the lib/SpatialHash.js grid.
restVars == <<staticCellSize, libBuckets, libGiven>>

vars == <<cellSize, buckets, objBounds, given, last, nOps, loop, sysVars, restVars>>

\* No call of hashBounds is being followed.
Idle == [pc |-> "idle"]

\* updateTicker = null
Null == "null"

\* The tickers a system can be set on.
Tickers == {"ticker1", "ticker2"}

\* static SCENE_CELL_SIZE = 256
SCENE_CELL_SIZE == 256

\* A SpatialHash used on its own: no scene graph, no system.
NoSystem ==
    /\ staticCellSize = SCENE_CELL_SIZE
    /\ loop = Idle
    /\ children = <<>>
    /\ cachedBounds = <<>>
    /\ hashTargets = <<>>
    /\ updateBeforeRender = TRUE
    /\ updateTicker = Null
    /\ skipBoundsUpdate = FALSE
    /\ listeners = [t \in Tickers |-> 0]
    /\ updates = 0

\* No lib/SpatialHash.js grid at the side of the SpatialHash.
NoLib ==
    /\ libBuckets = <<>>
    /\ libGiven = <<>>

\* --------------------------------------------------------------- cell keys

\* The pairs <<v, cellSize>> of this model for which v * sizeInv, with
\* sizeInv = 1 / cellSize, is in double precision below the integer
\* v / cellSize: 49 * (1 / 49) is 0.9999999999999999 and 98 * (1 / 49) is
\* 1.9999999999999998.
RoundsBelow == {<<49, 49>>, <<98, 49>>}

\* Truncation toward zero, (v * sizeInv) | 0, in place of Math.floor.
FloorTrunc(v, cs) == IF v >= 0 THEN v \div cs ELSE -((-v) \div cs)

\* Math.floor(v * sizeInv)
Floor(v, cs) == IF <<v, cs>> \in RoundsBelow THEN (v \div cs) - 1 ELSE v \div cs

\* hashPoint(x, y): `${Math.floor(x / cellSize)}|${Math.floor(y / cellSize)}`
hashPoint(x, y, cs) == <<x \div cs, y \div cs>>

\* The inner loop of hashBounds: for (x = maxX; x >= minX; x -= cellSize).
RECURSIVE hashRow(_, _, _, _)
hashRow(x, minX, y, cs) ==
    IF x >= minX
    THEN <<hashPoint(x, y, cs)>> \o hashRow(x - cs, minX, y, cs)
    ELSE <<>>

\* The outer loop of hashBounds: for (y = maxY; y >= minY; y -= cellSize).
RECURSIVE hashRows(_, _, _, _, _)
hashRows(y, minY, maxX, minX, cs) ==
    IF y >= minY
    THEN hashRow(maxX, minX, y, cs) \o hashRows(y - cs, minY, maxX, minX, cs)
    ELSE <<>>

\* hashBounds(bounds, callback): the keys handed to the callback, in order.
hashBounds(bounds, cs) ==
    LET minX == Floor(Left(bounds), cs) * cs
        minY == Floor(Top(bounds), cs) * cs
        maxX == Floor(Right(bounds), cs) * cs
        maxY == Floor(Bottom(bounds), cs) * cs
    IN  hashRows(maxY, minY, maxX, minX, cs)

\* -------------------------------------------------------------- operations

\* The callback of put: get the bucket of the key, create it if absent, add.
putHash(b, hash, object) ==
    LET bucket == IF hash \in DOMAIN b THEN b[hash] ELSE <<>>
    IN  [k \in DOMAIN b \cup {hash} |->
            IF k = hash THEN SetAdd(bucket, object) ELSE b[k]]

\* A put that returns after the first key handed to its callback.
putAllFirst(b, hashes, object) ==
    IF hashes = <<>> THEN b ELSE putHash(b, Head(hashes), object)

RECURSIVE putAll(_, _, _)
putAll(b, hashes, object) ==
    IF hashes = <<>>
    THEN b
    ELSE putAll(putHash(b, Head(hashes), object), Tail(hashes), object)

\* put(object, bounds): the bucket map after it.
put(b, object, bounds, cs) == putAll(b, hashBounds(bounds, cs), object)

\* A remove that also drops the keys of the buckets it finds or leaves empty.
removePrune(b, object) ==
    [k \in {h \in DOMAIN b : SelectSeq(b[h], LAMBDA u : u # object) # <<>>} |->
        SelectSeq(b[k], LAMBDA u : u # object)]

\* A remove that returns after the first bucket it finds the object in.
removeFirst(b, object) ==
    LET found == {k \in DOMAIN b : object \in Elems(b[k])}
    IN  IF found = {}
        THEN b
        ELSE LET first == CHOOSE k \in found : TRUE
             IN  [k \in DOMAIN b |->
                    IF k = first THEN SelectSeq(b[k], LAMBDA u : u # object) ELSE b[k]]

\* remove(object): delete the object from every bucket.
remove(b, object) == [k \in DOMAIN b |-> SetDelete(b[k], object)]

\* An update that puts and does not remove first.
updatePutOnly(b, object, bounds, cs) == putAll(b, hashBounds(bounds, cs), object)

\* An update that removes and does not put.
updateRemoveOnly(b, object, bounds, cs) == [k \in DOMAIN b |-> SelectSeq(b[k], LAMBDA u : u # object)]

\* update(object, bounds): remove, then put.
update(b, object, bounds, cs) == put(remove(b, object), object, bounds, cs)

\* A reset by buckets.clear(): the keys go with the members.
resetClear(b) == <<>>

\* A reset that misses one key.
resetButOne(b) ==
    IF DOMAIN b = {}
    THEN b
    ELSE LET missed == CHOOSE k \in DOMAIN b : TRUE
         IN  [k \in DOMAIN b |-> IF k = missed THEN b[k] ELSE <<>>]

\* reset(): every key gets a new empty Set.
reset(b) == [k \in DOMAIN b |-> <<>>]

\* A callback of search without the test of the object's bounds: every member
\* of a bucket the query touches is returned.
searchObjectCoarse(ob, object, bounds, searchResult) ==
    IF object \in Elems(searchResult) THEN searchResult ELSE Append(searchResult, object)

\* A callback of search that collects into an array.
searchObjectPush(ob, object, bounds, searchResult) ==
    IF /\ ob[object].x + ob[object].width >= bounds.x
       /\ ob[object].x <= bounds.x + bounds.width
       /\ ob[object].y + ob[object].height >= bounds.y
       /\ ob[object].y <= bounds.y + bounds.height
    THEN Append(searchResult, object)
    ELSE searchResult

\* The callback of search, for one object of a bucket: its own bounds are
\* fetched with object.getBounds(false, tempRect) and tested against the query.
searchObject(ob, object, bounds, searchResult) ==
    IF Intersects(ob[object], bounds)
    THEN SetAdd(searchResult, object)
    ELSE searchResult

\* bucket.forEach of the callback of search.
RECURSIVE searchBucket(_, _, _, _)
searchBucket(ob, bucket, bounds, searchResult) ==
    IF bucket = <<>>
    THEN searchResult
    ELSE searchBucket(ob, Tail(bucket), bounds,
                      searchObject(ob, Head(bucket), bounds, searchResult))

RECURSIVE searchAll(_, _, _, _, _)
searchAll(b, ob, hashes, bounds, searchResult) ==
    IF hashes = <<>>
    THEN searchResult
    ELSE searchAll(b, ob, Tail(hashes), bounds,
                   IF Head(hashes) \in DOMAIN b
                   THEN searchBucket(ob, b[Head(hashes)], bounds, searchResult)
                   ELSE searchResult)

\* A search that also visits the cells around those of the query.
searchAround(b, ob, bounds, cs) ==
    searchAll(b, ob,
              hashBounds([x |-> bounds.x - cs, y |-> bounds.y - cs,
                          width |-> bounds.width + 2 * cs,
                          height |-> bounds.height + 2 * cs], cs),
              bounds, <<>>)

\* search(bounds): the Set returned.
search(b, ob, bounds, cs) == searchAll(b, ob, hashBounds(bounds, cs), bounds, <<>>)

\* ----------------------------------------------------------------- actions

\* new SpatialHash(cellSize): an empty bucket map; reset() on it is a no-op.
Init ==
    /\ cellSize \in CellSizes
    /\ buckets = reset(<<>>)
    /\ objBounds = [o \in Objects |-> EmptyRect]
    /\ given = [o \in Objects |-> <<>>]
    /\ last = [op |-> "new"]
    /\ nOps = 0
    /\ NoSystem
    /\ NoLib

\* hash.put(object, bounds); bounds defaults to object.getBounds().
Put(object, bounds) ==
    /\ buckets' = put(buckets, object, bounds, cellSize)
    /\ given' = [given EXCEPT ![object] = Append(@, bounds)]
    /\ last' = [op |-> "put", object |-> object, bounds |-> bounds]
    /\ nOps' = nOps + 1
    /\ UNCHANGED <<cellSize, objBounds>>

\* hash.remove(object)
Remove(object) ==
    /\ buckets' = remove(buckets, object)
    /\ given' = [given EXCEPT ![object] = <<>>]
    /\ last' = [op |-> "remove", object |-> object, was |-> given[object]]
    /\ nOps' = nOps + 1
    /\ UNCHANGED <<cellSize, objBounds>>

\* hash.update(object, bounds)
Update(object, bounds) ==
    /\ buckets' = update(buckets, object, bounds, cellSize)
    /\ given' = [given EXCEPT ![object] = <<bounds>>]
    /\ last' = [op |-> "update", object |-> object, bounds |-> bounds,
                was |-> given[object]]
    /\ nOps' = nOps + 1
    /\ UNCHANGED <<cellSize, objBounds>>

\* A search that gets its buckets as put does, creating those that are absent.
SearchCreating(bounds) ==
    /\ buckets' = [k \in DOMAIN buckets \cup Elems(hashBounds(bounds, cellSize)) |->
                    IF k \in DOMAIN buckets THEN buckets[k] ELSE <<>>]
    /\ last' = [op |-> "search", bounds |-> bounds,
                result |-> searchAll(buckets, objBounds, hashBounds(bounds, cellSize),
                                     bounds, <<>>)]
    /\ nOps' = nOps + 1
    /\ UNCHANGED <<cellSize, objBounds, given>>

\* hash.search(bounds)
Search(bounds) ==
    /\ last' = [op |-> "search", bounds |-> bounds,
                result |-> search(buckets, objBounds, bounds, cellSize)]
    /\ nOps' = nOps + 1
    /\ UNCHANGED <<cellSize, buckets, objBounds, given>>

\* hash.reset()
Reset ==
    /\ buckets' = reset(buckets)
    /\ given' = [o \in DOMAIN given |-> <<>>]
    /\ last' = [op |-> "reset"]
    /\ nOps' = nOps + 1
    /\ UNCHANGED <<cellSize, objBounds>>

\* The display-object moves or is resized: getBounds() returns new bounds.
\* The hash is not told.
SetBounds(object, bounds) ==
    /\ objBounds[object] # bounds
    /\ objBounds' = [objBounds EXCEPT ![object] = bounds]
    /\ last' = [op |-> "setBounds", object |-> object]
    /\ nOps' = nOps + 1
    /\ UNCHANGED <<cellSize, buckets, given>>

\* A caller of the hash: MaxOps calls on the objects and rectangles above.
CallPut ==
    /\ nOps < MaxOps
    /\ \E object \in Objects, bounds \in Rects : Put(object, bounds)
    /\ UNCHANGED <<loop, sysVars, restVars>>

CallRemove ==
    /\ nOps < MaxOps
    /\ \E object \in Objects : Remove(object)
    /\ UNCHANGED <<loop, sysVars, restVars>>

CallUpdate ==
    /\ nOps < MaxOps
    /\ \E object \in Objects, bounds \in Rects : Update(object, bounds)
    /\ UNCHANGED <<loop, sysVars, restVars>>

CallSearch ==
    /\ nOps < MaxOps
    /\ \E bounds \in Rects : Search(bounds)
    /\ UNCHANGED <<loop, sysVars, restVars>>

CallReset == nOps < MaxOps /\ Reset /\ UNCHANGED <<loop, sysVars, restVars>>

Move ==
    /\ nOps < MaxOps
    /\ \E object \in Objects, bounds \in Rects : SetBounds(object, bounds)
    /\ UNCHANGED <<loop, sysVars, restVars>>

Next ==
    \/ CallPut
    \/ CallRemove
    \/ CallUpdate
    \/ CallSearch
    \/ CallReset
    \/ Move

Spec == Init /\ [][Next]_vars

\* ---------------------------------------------------- the test's scenario

\* new SpatialHash(100)
ScenarioCellSize == 100

\* Calls in one behaviour of the scenario: the four puts and a search.
ScenarioOps == 5

Containers == {"container0", "container1", "container2", "container3"}

\* new Graphics().drawRect(x, y, width, height): its bounds.
ContainerBounds ==
    [c \in Containers |->
        CASE c = "container0" -> [x |-> 51, y |-> 51, width |-> 48, height |-> 48]
          [] c = "container1" -> [x |-> 100, y |-> 110, width |-> 99, height |-> 99]
          [] c = "container2" -> [x |-> 200, y |-> -10, width |-> 99, height |-> 99]
          [] c = "container3" -> [x |-> -100, y |-> 0, width |-> 99, height |-> 99]]

\* new Rectangle(-50, -50, 100, 100)
TestQuery == [x |-> -50, y |-> -50, width |-> 100, height |-> 100]

ScenarioInit ==
    /\ cellSize = ScenarioCellSize
    /\ buckets = reset(<<>>)
    /\ objBounds = ContainerBounds
    /\ given = [c \in Containers |-> <<>>]
    /\ last = [op |-> "new"]
    /\ nOps = 0
    /\ NoSystem
    /\ NoLib

\* hash2D.put(container): the bounds default to container.getBounds().
ScenarioPut ==
    /\ nOps < ScenarioOps
    /\ \E c \in Containers : Put(c, objBounds[c])
    /\ UNCHANGED <<loop, sysVars, restVars>>

\* hash2D.search(rectangle), with the test's rectangle or a container's bounds.
ScenarioSearch ==
    /\ nOps < ScenarioOps
    /\ \E bounds \in {TestQuery} \cup {objBounds[c] : c \in Containers} : Search(bounds)
    /\ UNCHANGED <<loop, sysVars, restVars>>

ScenarioNext == ScenarioPut \/ ScenarioSearch

ScenarioSpec == ScenarioInit /\ [][ScenarioNext]_vars

\* ------------------------------------------ hashBounds, one step at a time

\* Calls of the hash in one behaviour whose loops are followed step by step.
MaxCalls == 1

\* Cells one call of hashBounds is followed through before it is cut off.
MaxVisits == 5

\* The constructor stores its argument as it is, whatever its sign.
AnyCellSizes == (-1)..MaxCellSize

\* Math.floor(v / d) for a divisor of either sign, d # 0.
FloorDiv(v, d) == IF d > 0 THEN v \div d ELSE (-v) \div (-d)

\* hashBounds up to its first loop test. With cellSize = 0, sizeInv is
\* Infinity and each of Math.floor(edge * Infinity) * 0 is NaN: nan is set
\* and every comparison of the loops is false.
enterHashBounds(op, object, bounds, cs) ==
    LET edge(v) == IF cs = 0 THEN 0 ELSE FloorDiv(v, cs) * cs
    IN  [pc |-> "outer", op |-> op, object |-> object, bounds |-> bounds,
         nan |-> (cs = 0),
         minX |-> edge(Left(bounds)), minY |-> edge(Top(bounds)),
         maxX |-> edge(Right(bounds)), maxY |-> edge(Bottom(bounds)),
         x |-> edge(Right(bounds)), y |-> edge(Bottom(bounds)),
         visited |-> 0, searchResult |-> <<>>]

\* put(object, bounds) enters hashBounds.
BeginPut(object, bounds) ==
    /\ loop' = enterHashBounds("put", object, bounds, cellSize)
    /\ UNCHANGED <<cellSize, buckets, objBounds, given, last, nOps, sysVars, restVars>>

\* update(object, bounds): remove(object), then put enters hashBounds.
BeginUpdate(object, bounds) ==
    /\ buckets' = remove(buckets, object)
    /\ given' = [given EXCEPT ![object] = <<>>]
    /\ loop' = enterHashBounds("update", object, bounds, cellSize)
    /\ UNCHANGED <<cellSize, objBounds, last, nOps, sysVars, restVars>>

\* search(bounds) enters hashBounds with an empty searchResult.
BeginSearch(bounds) ==
    /\ loop' = enterHashBounds("search", "", bounds, cellSize)
    /\ UNCHANGED <<cellSize, buckets, objBounds, given, last, nOps, sysVars, restVars>>

LoopCallPut ==
    /\ loop = Idle /\ nOps < MaxCalls
    /\ \E object \in Objects, bounds \in Rects : BeginPut(object, bounds)

LoopCallUpdate ==
    /\ loop = Idle /\ nOps < MaxCalls
    /\ \E object \in Objects, bounds \in Rects : BeginUpdate(object, bounds)

LoopCallSearch ==
    /\ loop = Idle /\ nOps < MaxCalls
    /\ \E bounds \in Rects : BeginSearch(bounds)

\* remove and reset run a forEach over the buckets there are: one step.
LoopCallRemove ==
    /\ loop = Idle /\ nOps < MaxCalls
    /\ \E object \in Objects : Remove(object)
    /\ UNCHANGED <<loop, sysVars, restVars>>

LoopCallReset ==
    /\ loop = Idle /\ nOps < MaxCalls
    /\ Reset
    /\ UNCHANGED <<loop, sysVars, restVars>>

\* for (let y = maxY; y >= minY; ...): the test holds, the inner loop starts.
LoopRow ==
    /\ loop # Idle /\ loop.pc = "outer"
    /\ ~loop.nan /\ loop.y >= loop.minY
    /\ loop' = [loop EXCEPT !.pc = "inner", !.x = loop.maxX]
    /\ UNCHANGED <<cellSize, buckets, objBounds, given, last, nOps, sysVars, restVars>>

\* for (let x = maxX; x >= minX; x -= cellSize) callback(this.hashPoint(x, y))
LoopVisit ==
    /\ loop # Idle /\ loop.pc = "inner"
    /\ loop.x >= loop.minX
    /\ loop.visited < MaxVisits
    /\ LET hash == <<FloorDiv(loop.x, cellSize), FloorDiv(loop.y, cellSize)>>
       IN  /\ buckets' = IF loop.op = "search"
                         THEN buckets
                         ELSE putHash(buckets, hash, loop.object)
           /\ loop' = [loop EXCEPT
                         !.x = @ - cellSize,
                         !.visited = @ + 1,
                         !.searchResult =
                             IF loop.op = "search" /\ hash \in DOMAIN buckets
                             THEN searchBucket(objBounds, buckets[hash], loop.bounds, @)
                             ELSE @]
    /\ UNCHANGED <<cellSize, objBounds, given, last, nOps, sysVars, restVars>>

\* The inner test fails: y -= cellSize, back to the outer test.
LoopRowEnd ==
    /\ loop # Idle /\ loop.pc = "inner"
    /\ ~(loop.x >= loop.minX)
    /\ loop' = [loop EXCEPT !.y = @ - cellSize, !.pc = "outer"]
    /\ UNCHANGED <<cellSize, buckets, objBounds, given, last, nOps, sysVars, restVars>>

\* The outer test fails: hashBounds returns, and so does the call.
LoopReturn ==
    /\ loop # Idle /\ loop.pc = "outer"
    /\ loop.nan \/ ~(loop.y >= loop.minY)
    /\ loop' = Idle
    /\ given' = IF loop.op = "search"
                THEN given
                ELSE [given EXCEPT ![loop.object] = Append(@, loop.bounds)]
    /\ last' = [op |-> loop.op, bounds |-> loop.bounds, visited |-> loop.visited,
                result |-> loop.searchResult]
    /\ nOps' = nOps + 1
    /\ UNCHANGED <<cellSize, buckets, objBounds, sysVars, restVars>>

\* new SpatialHash(cellSize) with any integer argument.
LoopInit ==
    /\ cellSize \in AnyCellSizes
    /\ buckets = <<>>
    /\ objBounds = [o \in Objects |-> EmptyRect]
    /\ given = [o \in Objects |-> <<>>]
    /\ last = [op |-> "new"]
    /\ nOps = 0
    /\ NoSystem
    /\ NoLib

LoopNext ==
    \/ LoopCallPut
    \/ LoopCallUpdate
    \/ LoopCallSearch
    \/ LoopCallRemove
    \/ LoopCallReset
    \/ LoopRow
    \/ LoopVisit
    \/ LoopRowEnd
    \/ LoopReturn

LoopSpec == LoopInit /\ [][LoopNext]_vars

\* ------------------------------------------------- bounds of any shape

\* Calls in one behaviour of a caller that passes bounds of any shape.
MaxAnyOps == 2

\* Rectangles as a caller can construct them: new Rectangle(x, y, width,
\* height) takes a width and a height of either sign.
AnyRects ==
    {r \in [x : XCoords, y : YCoords, width : (-1)..1, height : (-1)..1] :
        r.x + r.width \in XCoords /\ r.y + r.height \in YCoords}

PutAny ==
    /\ nOps < MaxAnyOps
    /\ \E object \in Objects, bounds \in AnyRects : Put(object, bounds)
    /\ UNCHANGED <<loop, sysVars, restVars>>

UpdateAny ==
    /\ nOps < MaxAnyOps
    /\ \E object \in Objects, bounds \in AnyRects : Update(object, bounds)
    /\ UNCHANGED <<loop, sysVars, restVars>>

AnyBoundsNext == PutAny \/ UpdateAny

AnyBoundsSpec == Init /\ [][AnyBoundsNext]_vars

\* ------------------------------------------------------ SpatialHashSystem

\* Operations in one behaviour of a system and its scene.
MaxSceneOps == 5

\* The display-objects of the scene.
DisplayObjects == {"stage", "container", "graphics"}

\* The scene graph: stage.addChild(container), container.addChild(graphics).
Scene ==
    [o \in DisplayObjects |->
        CASE o = "stage" -> <<"container">>
          [] o = "container" -> <<"graphics">>
          [] o = "graphics" -> <<>>]

\* The bounds display-objects take in the scene: two points of one cell, a
\* column and the whole window, which lie over both cells of the scene's hash.
SceneRects ==
    {r \in Rects : \/ r.width = 0 /\ r.y = 0
                   \/ r.height = 1 /\ r.x = 0}

\* The bounds the display-objects start with.
SceneBounds ==
    [o \in DisplayObjects |->
        CASE o = "stage" -> [x |-> 0, y |-> -1, width |-> 1, height |-> 1]
          [] o = "container" -> [x |-> 0, y |-> -1, width |-> 0, height |-> 1]
          [] o = "graphics" -> [x |-> 0, y |-> 0, width |-> 0, height |-> 0]]

\* A display-object and its direct and indirect children.
RECURSIVE Subtree(_, _)
Subtree(ch, displayObject) ==
    {displayObject} \cup UNION {Subtree(ch, ch[displayObject][i]) : i \in 1..Len(ch[displayObject])}

\* displayObject.getBounds(false, tempRect): the transforms of the object and
\* of its subtree are updated, so that their calculated bounds are their
\* bounds now.
getBoundsUpdate(cb, ob, ch, displayObject) ==
    [o \in DOMAIN cb |-> IF o \in Subtree(ch, displayObject) THEN ob[o] ELSE cb[o]]

\* updateRecursive(displayObject) and the loop over its children, on the pair
\* of the bucket map and the record of the bounds put. The bounds put are
\* displayObject.getBounds(true, tempRect): the bounds as last calculated.
RECURSIVE updateRecursive(_, _, _, _, _)
RECURSIVE updateChildren(_, _, _, _, _)
updateRecursive(st, cb, ch, cs, displayObject) ==
    updateChildren(
        [b |-> put(st.b, displayObject, cb[displayObject], cs),
         g |-> [st.g EXCEPT ![displayObject] = Append(@, cb[displayObject])]],
        cb, ch, cs, ch[displayObject])

updateChildren(st, cb, ch, cs, list) ==
    IF list = <<>>
    THEN st
    ELSE updateChildren(updateRecursive(st, cb, ch, cs, Head(list)),
                        cb, ch, cs, Tail(list))

\* hashTargets.forEach of update: the target's bounds are updated unless
\* skipBoundsUpdate, then it and its subtree are put.
RECURSIVE updateTargets(_, _, _, _, _, _)
updateTargets(st, ob, ch, cs, skip, targets) ==
    IF targets = <<>>
    THEN st
    ELSE LET cb == IF skip
                   THEN st.cb
                   ELSE getBoundsUpdate(st.cb, ob, ch, Head(targets))
             hashed == updateRecursive([b |-> st.b, g |-> st.g], cb, ch, cs, Head(targets))
         IN  updateTargets([b |-> hashed.b, g |-> hashed.g, cb |-> cb],
                           ob, ch, cs, skip, Tail(targets))

systemUpdateKeeping(b, cb, ob, ch, cs, skip, targets) ==
    updateTargets([b |-> b, g |-> [o \in DOMAIN ob |-> <<>>], cb |-> cb],
                  ob, ch, cs, skip, targets)

\* SpatialHashSystem.update: hash2D.reset(), then every target and its subtree
\* is put. Yields the bucket map b, the bounds put g, the calculated bounds cb.
systemUpdate(b, cb, ob, ch, cs, skip, targets) ==
    updateTargets([b |-> reset(b), g |-> [o \in DOMAIN ob |-> <<>>], cb |-> cb],
                  ob, ch, cs, skip, targets)

\* A display-object as an argument of search: a value with getBounds, which
\* a rectangle has not.
AsArgument(displayObject) == [getBounds |-> displayObject]

\* objectOrBounds instanceof DisplayObject || objectOrBounds.getBounds
hasGetBounds(objectOrBounds) == "getBounds" \in DOMAIN objectOrBounds

\* SpatialHashSystem.search(objectOrBounds): bounds is the argument as it
\* came, and it is bounds that goes to hash2D.search. A display-object has no
\* left, top, right or bottom: in hashBounds every edge is
\* Math.floor(undefined * sizeInv) * cellSize = NaN, no loop test holds and
\* no key is handed to the callback.
systemSearch(b, ob, objectOrBounds, cs) ==
    LET bounds == objectOrBounds
    IN  IF hasGetBounds(bounds)
        THEN searchAll(b, ob, <<>>, bounds, <<>>)
        ELSE search(b, ob, bounds, cs)

\* The members of the buckets hash2D.search visits: on each of them it calls
\* getBounds(false, tempRect).
candidates(b, objectOrBounds, cs) ==
    IF hasGetBounds(objectOrBounds)
    THEN {}
    ELSE UNION {Elems(b[k]) : k \in Elems(hashBounds(objectOrBounds, cs)) \cap DOMAIN b}

\* new SpatialHashSystem(renderer), and the scene.
SceneInit ==
    /\ cellSize = SCENE_CELL_SIZE
    /\ buckets = reset(<<>>)
    /\ objBounds = SceneBounds
    /\ given = [o \in DisplayObjects |-> <<>>]
    /\ last = [op |-> "new"]
    /\ nOps = 0
    /\ loop = Idle
    /\ children = Scene
    /\ cachedBounds = SceneBounds
    /\ hashTargets = <<>>
    /\ updateBeforeRender = TRUE
    /\ updateTicker = Null
    /\ skipBoundsUpdate = FALSE
    /\ listeners = [t \in Tickers |-> 0]
    /\ updates = 0
    /\ staticCellSize = SCENE_CELL_SIZE
    /\ NoLib

\* addTarget(displayObject)
AddTarget(displayObject) ==
    /\ hashTargets' = SetAdd(hashTargets, displayObject)
    /\ last' = [op |-> "addTarget", object |-> displayObject]
    /\ nOps' = nOps + 1
    /\ UNCHANGED <<restVars, cellSize, buckets, objBounds, given, loop, children, cachedBounds,
                   updateBeforeRender, updateTicker, skipBoundsUpdate, listeners, updates>>

\* removeTarget(displayObject)
RemoveTarget(displayObject) ==
    /\ hashTargets' = SetDelete(hashTargets, displayObject)
    /\ last' = [op |-> "removeTarget", object |-> displayObject]
    /\ nOps' = nOps + 1
    /\ UNCHANGED <<restVars, cellSize, buckets, objBounds, given, loop, children, cachedBounds,
                   updateBeforeRender, updateTicker, skipBoundsUpdate, listeners, updates>>

\* The effect of one run of update on the hash and on the calculated bounds.
RunUpdate ==
    LET st == systemUpdate(buckets, cachedBounds, objBounds, children, cellSize,
                           skipBoundsUpdate, hashTargets)
    IN  /\ buckets' = st.b
        /\ given' = st.g
        /\ cachedBounds' = st.cb
        /\ updates' = updates + 1

\* spatialHash.update(), called by the owner of the system.
SystemUpdate ==
    /\ RunUpdate
    /\ last' = [op |-> "systemUpdate",
                was |-> UNION {Elems(buckets[k]) : k \in DOMAIN buckets}]
    /\ nOps' = nOps + 1
    /\ UNCHANGED <<restVars, cellSize, objBounds, loop, children, hashTargets,
                   updateBeforeRender, updateTicker, skipBoundsUpdate, listeners>>

\* spatialHash.search(objectOrBounds)
SystemSearch(objectOrBounds) ==
    /\ last' = [op |-> "systemSearch", arg |-> objectOrBounds,
                result |-> systemSearch(buckets, objBounds, objectOrBounds, cellSize)]
    /\ cachedBounds' =
        [o \in DOMAIN cachedBounds |->
            IF \E c \in candidates(buckets, objectOrBounds, cellSize)
                          \cup (IF hasGetBounds(objectOrBounds)
                                THEN {objectOrBounds.getBounds}
                                ELSE {}) :
                    o \in Subtree(children, c)
            THEN objBounds[o]
            ELSE cachedBounds[o]]
    /\ nOps' = nOps + 1
    /\ UNCHANGED <<restVars, cellSize, buckets, objBounds, given, loop, children, hashTargets,
                   updateBeforeRender, updateTicker, skipBoundsUpdate, listeners, updates>>

\* spatialHash.skipBoundsUpdate = value
SetSkipBoundsUpdate(value) ==
    /\ skipBoundsUpdate' = value
    /\ last' = [op |-> "skipBoundsUpdate", value |-> value]
    /\ nOps' = nOps + 1
    /\ UNCHANGED <<restVars, cellSize, buckets, objBounds, given, loop, children, cachedBounds,
                   hashTargets, updateBeforeRender, updateTicker, listeners, updates>>

SceneAddTarget ==
    nOps < MaxSceneOps /\ \E displayObject \in DisplayObjects : AddTarget(displayObject)

SceneRemoveTarget ==
    nOps < MaxSceneOps /\ \E displayObject \in DisplayObjects : RemoveTarget(displayObject)

SceneUpdate == nOps < MaxSceneOps /\ SystemUpdate

SceneSearch ==
    /\ nOps < MaxSceneOps
    /\ \E objectOrBounds \in SceneRects \cup {AsArgument(o) : o \in DisplayObjects} :
            SystemSearch(objectOrBounds)

SceneSkip == nOps < MaxSceneOps /\ \E value \in BOOLEAN : SetSkipBoundsUpdate(value)

\* A display-object of the scene moves: its bounds change, its calculated
\* bounds do not until its transform is next updated.
SceneMove ==
    /\ nOps < MaxSceneOps
    /\ \E displayObject \in DisplayObjects, bounds \in SceneRects :
            SetBounds(displayObject, bounds)
    /\ UNCHANGED <<loop, sysVars, restVars>>

SceneNext ==
    \/ SceneAddTarget
    \/ SceneRemoveTarget
    \/ SceneUpdate
    \/ SceneSearch
    \/ SceneSkip
    \/ SceneMove

SceneSpec == SceneInit /\ [][SceneNext]_vars

\* ------------------------------------------- the system, tickers and renders

\* Operations in one behaviour of a system and its tickers.
MaxTickerOps == 4

setTickerKeeping(ls, old, flag, ticker) ==
    [listeners |-> IF ticker # Null THEN [ls EXCEPT ![ticker] = @ + 1] ELSE ls,
     updateTicker |-> ticker,
     updateBeforeRender |-> IF ticker # Null THEN FALSE ELSE flag]

setTickerRestoring(ls, old, flag, ticker) ==
    LET removed == IF old # Null THEN [ls EXCEPT ![old] = 0] ELSE ls
    IN  [listeners |-> IF ticker # Null THEN [removed EXCEPT ![ticker] = @ + 1] ELSE removed,
         updateTicker |-> ticker,
         updateBeforeRender |-> ticker = Null]

\* setTicker(ticker) on the listeners of the tickers, the ticker stored and
\* the flag: updateTicker.remove(this.update) if a ticker was stored, then
\* updateTicker.add(this.update) and updateBeforeRender = false if one is now.
setTicker(ls, old, flag, ticker) ==
    LET removed == IF old # Null THEN [ls EXCEPT ![old] = 0] ELSE ls
    IN  [listeners |-> IF ticker # Null THEN [removed EXCEPT ![ticker] = @ + 1] ELSE removed,
         updateTicker |-> ticker,
         updateBeforeRender |-> IF ticker # Null THEN FALSE ELSE flag]

\* The renders and the updates of the frame that is going on: a frame is a
\* tick, if any, and the renders that follow it.
Frame == IF "frame" \in DOMAIN last
         THEN last.frame
         ELSE [ticked |-> FALSE, renders |-> 0, updates |-> 0]

\* setTicker with a ticker and then setTicker(null) have been called, and
\* since then only ticks, prerender events and update().
Cleared == IF "cleared" \in DOMAIN last THEN last.cleared ELSE FALSE

\* spatialHash.setTicker(ticker)
SetTicker(ticker) ==
    LET set == setTicker(listeners, updateTicker, updateBeforeRender, ticker)
    IN  /\ listeners' = set.listeners
        /\ updateTicker' = set.updateTicker
        /\ updateBeforeRender' = set.updateBeforeRender
        /\ last' = [op |-> "setTicker", ticker |-> ticker, was |-> updateTicker,
                    cleared |-> /\ ticker = Null
                                /\ \/ Cleared
                                   \/ last.op = "setTicker" /\ last.ticker # Null]
        /\ nOps' = nOps + 1
        /\ UNCHANGED <<restVars, cellSize, buckets, objBounds, given, loop, children, cachedBounds,
                       hashTargets, skipBoundsUpdate, updates>>

\* A ticker fires: it calls each of its listeners, and each registration of
\* the update callback runs update.
Tick(ticker) ==
    /\ IF listeners[ticker] > 0
       THEN LET st == systemUpdate(buckets, cachedBounds, objBounds, children, cellSize,
                                   skipBoundsUpdate, hashTargets)
            IN  /\ buckets' = st.b
                /\ given' = st.g
                /\ cachedBounds' = st.cb
                /\ updates' = updates + listeners[ticker]
       ELSE UNCHANGED <<buckets, given, cachedBounds, updates>>
    /\ last' = [op |-> "tick", ticker |-> ticker, cleared |-> Cleared,
                frame |-> [ticked |-> ticker = updateTicker, renders |-> 0,
                           updates |-> listeners[ticker]]]
    /\ nOps' = nOps + 1
    /\ UNCHANGED <<restVars, cellSize, objBounds, loop, children, hashTargets,
                   updateBeforeRender, updateTicker, skipBoundsUpdate, listeners>>

PrerenderAlways ==
    /\ RunUpdate
    /\ last' = [op |-> "prerender", cleared |-> Cleared,
                frame |-> [Frame EXCEPT !.renders = @ + 1, !.updates = @ + 1]]
    /\ nOps' = nOps + 1
    /\ UNCHANGED <<restVars, cellSize, objBounds, loop, children, hashTargets,
                   updateBeforeRender, updateTicker, skipBoundsUpdate, listeners>>

\* prerender(), the handler of the renderer's prerender event.
Prerender ==
    /\ IF updateBeforeRender
       THEN RunUpdate
       ELSE UNCHANGED <<buckets, given, cachedBounds, updates>>
    /\ last' = [op |-> "prerender", cleared |-> Cleared,
                frame |-> [Frame EXCEPT !.renders = @ + 1,
                                        !.updates = @ + (IF updateBeforeRender THEN 1 ELSE 0)]]
    /\ nOps' = nOps + 1
    /\ UNCHANGED <<restVars, cellSize, objBounds, loop, children, hashTargets,
                   updateBeforeRender, updateTicker, skipBoundsUpdate, listeners>>

\* spatialHash.updateBeforeRender = value
SetUpdateBeforeRender(value) ==
    /\ updateBeforeRender' = value
    /\ last' = [op |-> "updateBeforeRender", value |-> value]
    /\ nOps' = nOps + 1
    /\ UNCHANGED <<restVars, cellSize, buckets, objBounds, given, loop, children, cachedBounds,
                   hashTargets, updateTicker, skipBoundsUpdate, listeners, updates>>

\* spatialHash.update(), called by the owner of the system between frames.
TickerUpdate ==
    /\ nOps < MaxTickerOps
    /\ RunUpdate
    /\ last' = [op |-> "update", cleared |-> Cleared]
    /\ nOps' = nOps + 1
    /\ UNCHANGED <<restVars, cellSize, objBounds, loop, children, hashTargets,
                   updateBeforeRender, updateTicker, skipBoundsUpdate, listeners>>

TickerSetTicker ==
    nOps < MaxTickerOps /\ \E ticker \in Tickers \cup {Null} : SetTicker(ticker)

TickerTick == nOps < MaxTickerOps /\ \E ticker \in Tickers : Tick(ticker)

TickerPrerender == nOps < MaxTickerOps /\ Prerender

TickerFlag == nOps < MaxTickerOps /\ \E value \in BOOLEAN : SetUpdateBeforeRender(value)

TickerAddTarget ==
    nOps < MaxTickerOps /\ \E displayObject \in DisplayObjects : AddTarget(displayObject)

TickerNext ==
    \/ TickerSetTicker
    \/ TickerTick
    \/ TickerPrerender
    \/ TickerFlag
    \/ TickerAddTarget
    \/ TickerUpdate

TickerSpec == SceneInit /\ [][TickerNext]_vars

\* ------------------------------------------------------ lib/SpatialHash.js

\* Operations in one behaviour of the two grids side by side.
MaxLibOps == 3

\* The rectangles given to the two grids: on the line x = 0, with y in -2..0,
\* so that with cell size 2 the points y = -2 and y = -1 share the cell -1.
LibRects ==
    {r \in [x : {0}, y : (-2)..0, width : {0}, height : 0..2] : r.y + r.height <= 0}

\* (v * sizeInv | 0): the fraction is dropped, toward zero.
Truncate(v, cs) == IF v >= 0 THEN v \div cs ELSE -((-v) \div cs)

\* hashBounds of lib/SpatialHash.js: the edges by | 0, the loops and
\* hashPoint as in the SpatialHash.
libHashBounds(bounds, cs) ==
    LET minX == Truncate(Left(bounds), cs) * cs
        minY == Truncate(Top(bounds), cs) * cs
        maxX == Truncate(Right(bounds), cs) * cs
        maxY == Truncate(Bottom(bounds), cs) * cs
    IN  hashRows(maxY, minY, maxX, minX, cs)

\* put of lib/SpatialHash.js: the bucket map after it.
libPut(b, object, bounds, cs) == putAll(b, libHashBounds(bounds, cs), object)

\* update of lib/SpatialHash.js
libUpdate(b, object, bounds, cs) == libPut(remove(b, object), object, bounds, cs)

\* What a call returns: the grid it was called on, or nothing.
This == "this"

Undefined == "undefined"

\* put of the SpatialHash ends with return this.
putReturns == This

\* put of lib/SpatialHash.js has no return statement.
libPutReturns == Undefined

\* returned.put(object, bounds), the second call of hash.put(..).put(..), on
\* the grid b the first put left: the grid after the chained put if the first
\* put returned the grid, a TypeError and no put if it returned undefined.
chainPut(returned, b, chained) ==
    IF returned = This THEN chained ELSE b

\* The callback of the search of lib/SpatialHash.js: every object of the
\* bucket is added to the result.
RECURSIVE libSearchBucket(_, _)
libSearchBucket(bucket, searchResult) ==
    IF bucket = <<>>
    THEN searchResult
    ELSE libSearchBucket(Tail(bucket), SetAdd(searchResult, Head(bucket)))

RECURSIVE libSearchAll(_, _, _)
libSearchAll(b, hashes, searchResult) ==
    IF hashes = <<>>
    THEN searchResult
    ELSE libSearchAll(b, Tail(hashes),
                      IF Head(hashes) \in DOMAIN b
                      THEN libSearchBucket(b[Head(hashes)], searchResult)
                      ELSE searchResult)

libSearchFirst(b, bounds, cs) ==
    libSearchAll(b, SubSeq(libHashBounds(bounds, cs), 1, 1), <<>>)

\* search of lib/SpatialHash.js: the Set returned.
libSearch(b, bounds, cs) == libSearchAll(b, libHashBounds(bounds, cs), <<>>)

\* The same call goes to a SpatialHash and to a lib/SpatialHash.js grid of
\* the same cell size.
LibPut ==
    /\ nOps < MaxLibOps
    /\ \E object \in Objects, bounds \in LibRects :
            /\ Put(object, bounds)
            /\ libBuckets' = libPut(libBuckets, object, bounds, cellSize)
            /\ libGiven' = [libGiven EXCEPT ![object] = Append(@, bounds)]
    /\ UNCHANGED <<loop, sysVars, staticCellSize>>

\* hash.put(first).put(second), the bounds left to object.getBounds().
LibPutChain ==
    /\ nOps < MaxLibOps
    /\ \E first \in Objects : \E second \in Objects \ {first} :
            /\ LET b == put(buckets, first, objBounds[first], cellSize)
               IN  buckets' = chainPut(putReturns, b,
                                       put(b, second, objBounds[second], cellSize))
            /\ LET b == libPut(libBuckets, first, objBounds[first], cellSize)
               IN  libBuckets' = chainPut(libPutReturns, b,
                                          libPut(b, second, objBounds[second], cellSize))
            /\ given' = [given EXCEPT ![first] = Append(@, objBounds[first]),
                                      ![second] = Append(@, objBounds[second])]
            /\ libGiven' = [libGiven EXCEPT
                                ![first] = Append(@, objBounds[first]),
                                ![second] = IF libPutReturns = This
                                            THEN Append(@, objBounds[second])
                                            ELSE @]
            /\ last' = [op |-> "putChain", first |-> first, second |-> second,
                        returned |-> <<putReturns, libPutReturns>>]
    /\ nOps' = nOps + 1
    /\ UNCHANGED <<cellSize, objBounds, loop, sysVars, staticCellSize>>

LibRemove ==
    /\ nOps < MaxLibOps
    /\ \E object \in Objects :
            /\ Remove(object)
            /\ libBuckets' = remove(libBuckets, object)
            /\ libGiven' = [libGiven EXCEPT ![object] = <<>>]
    /\ UNCHANGED <<loop, sysVars, staticCellSize>>

LibUpdate ==
    /\ nOps < MaxLibOps
    /\ \E object \in Objects, bounds \in LibRects :
            /\ Update(object, bounds)
            /\ libBuckets' = libUpdate(libBuckets, object, bounds, cellSize)
            /\ libGiven' = [libGiven EXCEPT ![object] = <<bounds>>]
    /\ UNCHANGED <<loop, sysVars, staticCellSize>>

LibSearch ==
    /\ nOps < MaxLibOps
    /\ \E bounds \in LibRects : Search(bounds)
    /\ UNCHANGED <<loop, sysVars, restVars>>

LibReset ==
    /\ nOps < MaxLibOps
    /\ Reset
    /\ libBuckets' = reset(libBuckets)
    /\ libGiven' = [o \in DOMAIN libGiven |-> <<>>]
    /\ UNCHANGED <<loop, sysVars, staticCellSize>>

LibMove ==
    /\ nOps < MaxLibOps
    /\ \E object \in Objects, bounds \in LibRects : SetBounds(object, bounds)
    /\ UNCHANGED <<loop, sysVars, restVars>>

LibNext ==
    \/ LibPut
    \/ LibPutChain
    \/ LibRemove
    \/ LibUpdate
    \/ LibSearch
    \/ LibReset
    \/ LibMove

\* new SpatialHash(cellSize), of either file, for the same cell size.
LibInit ==
    /\ cellSize \in CellSizes
    /\ buckets = reset(<<>>)
    /\ objBounds = [o \in Objects |-> EmptyRect]
    /\ given = [o \in Objects |-> <<>>]
    /\ last = [op |-> "new"]
    /\ nOps = 0
    /\ NoSystem
    /\ libBuckets = reset(<<>>)
    /\ libGiven = [o \in Objects |-> <<>>]

LibSpec == LibInit /\ [][LibNext]_vars

\* ------------------------------------------- the system's grid and its size

\* Operations in one behaviour of a system, its grid and the static field.
MaxConfigOps == 3

\* The values SCENE_CELL_SIZE is given: the one it is declared with, and the
\* cell sizes of the model.
SceneCellSizes == {SCENE_CELL_SIZE} \cup CellSizes

\* SpatialHashSystem.SCENE_CELL_SIZE = value, then new SpatialHashSystem:
\* hash2D = new SpatialHash(SpatialHashSystem.SCENE_CELL_SIZE).
ConfigInit ==
    /\ staticCellSize \in SceneCellSizes
    /\ cellSize = staticCellSize
    /\ buckets = reset(<<>>)
    /\ objBounds = SceneBounds
    /\ given = [o \in DisplayObjects |-> <<>>]
    /\ last = [op |-> "new"]
    /\ nOps = 0
    /\ loop = Idle
    /\ children = Scene
    /\ cachedBounds = SceneBounds
    /\ hashTargets = <<>>
    /\ updateBeforeRender = TRUE
    /\ updateTicker = Null
    /\ skipBoundsUpdate = FALSE
    /\ listeners = [t \in Tickers |-> 0]
    /\ updates = 0
    /\ NoLib

SetSceneCellSizeLive(value) ==
    /\ staticCellSize' = value
    /\ cellSize' = value
    /\ last' = [op |-> "SCENE_CELL_SIZE", value |-> value]
    /\ nOps' = nOps + 1
    /\ UNCHANGED <<buckets, objBounds, given, loop, sysVars, libBuckets, libGiven>>

\* SpatialHashSystem.SCENE_CELL_SIZE = value, with the system constructed.
SetSceneCellSize(value) ==
    /\ staticCellSize' = value
    /\ last' = [op |-> "SCENE_CELL_SIZE", value |-> value]
    /\ nOps' = nOps + 1
    /\ UNCHANGED <<cellSize, buckets, objBounds, given, loop, sysVars, libBuckets, libGiven>>

ConfigStatic ==
    /\ nOps < MaxConfigOps
    /\ \E value \in SceneCellSizes \ {staticCellSize} : SetSceneCellSize(value)

\* spatialHash.hash2D.put(displayObject, bounds), and so on: the grid of the
\* system is a public field.
ConfigPut ==
    /\ nOps < MaxConfigOps
    /\ \E object \in DisplayObjects, bounds \in SceneRects : Put(object, bounds)
    /\ UNCHANGED <<loop, sysVars, restVars>>

ConfigRemove ==
    /\ nOps < MaxConfigOps
    /\ \E object \in DisplayObjects : Remove(object)
    /\ UNCHANGED <<loop, sysVars, restVars>>

ConfigUpdate ==
    /\ nOps < MaxConfigOps
    /\ \E object \in DisplayObjects, bounds \in SceneRects : Update(object, bounds)
    /\ UNCHANGED <<loop, sysVars, restVars>>

ConfigSearch ==
    /\ nOps < MaxConfigOps
    /\ \E bounds \in SceneRects : Search(bounds)
    /\ UNCHANGED <<loop, sysVars, restVars>>

ConfigReset == nOps < MaxConfigOps /\ Reset /\ UNCHANGED <<loop, sysVars, restVars>>

ConfigAddTarget ==
    nOps < MaxConfigOps /\ \E displayObject \in DisplayObjects : AddTarget(displayObject)

ConfigSystemUpdate == nOps < MaxConfigOps /\ SystemUpdate

ConfigNext ==
    \/ ConfigStatic
    \/ ConfigPut
    \/ ConfigRemove
    \/ ConfigUpdate
    \/ ConfigSearch
    \/ ConfigReset
    \/ ConfigAddTarget
    \/ ConfigSystemUpdate

ConfigSpec == ConfigInit /\ [][ConfigNext]_vars

\* ------------------------------------------------- edges on cell boundaries

\* Operations in one behaviour of a grid with edges on cell boundaries.
MaxEdgeOps == 2

\* Cell sizes whose reciprocal is not a double: the multiples of 48 times
\* 1 / 48 come out as integers, 49 and 98 times 1 / 49 do not.
EdgeCellSizes == {48, 49}

\* Left and right edges: on the boundaries of the cells of size 49, and
\* inside them.
EdgeCoords == {-49, 0, 48, 49, 98}

\* Well-formed rectangles on the line y = 0 with these edges.
EdgeRects ==
    {r \in [x : EdgeCoords, y : {0}, width : 0..147, height : {0}] :
        r.x + r.width \in EdgeCoords}

EdgeInit ==
    /\ cellSize \in EdgeCellSizes
    /\ buckets = reset(<<>>)
    /\ objBounds = [o \in Objects |-> EmptyRect]
    /\ given = [o \in Objects |-> <<>>]
    /\ last = [op |-> "new"]
    /\ nOps = 0
    /\ NoSystem
    /\ NoLib

EdgePut ==
    /\ nOps < MaxEdgeOps
    /\ \E object \in Objects, bounds \in EdgeRects : Put(object, bounds)
    /\ UNCHANGED <<loop, sysVars, restVars>>

EdgeUpdate ==
    /\ nOps < MaxEdgeOps
    /\ \E object \in Objects, bounds \in EdgeRects : Update(object, bounds)
    /\ UNCHANGED <<loop, sysVars, restVars>>

EdgeSearch ==
    /\ nOps < MaxEdgeOps
    /\ \E bounds \in EdgeRects : Search(bounds)
    /\ UNCHANGED <<loop, sysVars, restVars>>

EdgeNext == EdgePut \/ EdgeUpdate \/ EdgeSearch

EdgeSpec == EdgeInit /\ [][EdgeNext]_vars

\* ------------------------------------------------- what the claims speak of

\* Two rectangles overlap when they share a point, edges included.
Overlap(B, Q) ==
    \E px \in Left(B)..Right(B), py \in Top(B)..Bottom(B) :
        /\ px \in Left(Q)..Right(Q)
        /\ py \in Top(Q)..Bottom(Q)

\* The cells a rectangle overlaps: floor(left / cs)..floor(right / cs) by
\* floor(top / cs)..floor(bottom / cs).
CellRange(B, cs) ==
    {<<cx, cy>> : cx \in (Left(B) \div cs)..(Right(B) \div cs),
                  cy \in (Top(B) \div cs)..(Bottom(B) \div cs)}

\* The cells hashBounds visits for a rectangle. It is CellRange where
\* Math.floor(v * sizeInv) is the floor of v / cellSize.
Visited(B, cs) == Elems(hashBounds(B, cs))

\* Every object the state knows of.
Known == DOMAIN objBounds

\* The buckets an object is a member of.
CellsOf(e) == {k \in DOMAIN buckets : e \in Elems(buckets[k])}

Present(e) == CellsOf(e) # {}

\* What search(Q) returns in this state: as a Set, and its members.
Returned(Q) == search(buckets, objBounds, Q, cellSize)

Found(Q) == Elems(Returned(Q))

\* The rectangles a search is tried with.
Queries == Rects \cup {objBounds[e] : e \in Known}

\* How many times an object occurs in a result.
Count(e, r) == Cardinality({i \in 1..Len(r) : r[i] = e})

AllEmpty == \A k \in DOMAIN buckets : buckets[k] = <<>>

\* The bounds last passed to put / update for an object in the hash.
LastGiven(e) == given[e][Len(given[e])]

\* The object's own bounds are those last passed to the hash for it.
Fresh(e) == given[e] # <<>> /\ objBounds[e] = LastGiven(e)

\* ------------------------------------------------------------------ claims

\* C1: after put(e, B), with e's own bounds equal to B, e is in search(Q)
\* exactly when B and Q overlap, for every rectangle Q; a grid of any other
\* cell size given the same put answers the same.
FootprintCorrect ==
    (last.op = "put" /\ objBounds[last.object] = last.bounds) =>
        \A Q \in Queries :
            /\ (last.object \in Found(Q)) <=> Overlap(last.bounds, Q)
            /\ \A cs \in CellSizes :
                (last.object \in Found(Q)) <=>
                    (last.object \in Elems(search(
                        put(reset(<<>>), last.object, last.bounds, cs),
                        objBounds, Q, cs)))

\* C1's case: the object was put with its own bounds, which span several
\* cells, and some rectangle shares a cell with them without overlapping them.
FootprintCorrectWitness ==
    /\ last.op = "put"
    /\ objBounds[last.object] = last.bounds
    /\ Cardinality(CellRange(last.bounds, cellSize)) >= 2
    /\ \E Q \in Queries :
        /\ ~Overlap(last.bounds, Q)
        /\ CellRange(last.bounds, cellSize) \cap CellRange(Q, cellSize) # {}

\* C2 as stated: in every reachable state search(Q) returns exactly the
\* objects in the hash whose bounds intersect Q.
NaiveScan ==
    \A Q \in Queries :
        Found(Q) = {e \in Known : Present(e) /\ Overlap(objBounds[e], Q)}

\* C2 as amended: every object search(Q) returns is in the hash and its
\* bounds intersect Q (sharing a cell is never enough), and every object in
\* the hash whose bounds intersect Q is returned provided its bounds are those
\* last passed to put / update for it.
NaiveScanFresh ==
    \A Q \in Queries :
        /\ Found(Q) \subseteq {e \in Known : Present(e) /\ Overlap(objBounds[e], Q)}
        /\ {e \in Known : Fresh(e) /\ Overlap(objBounds[e], Q)} \subseteq Found(Q)

\* C2's case: two objects in the hash under their own bounds share a cell,
\* do not overlap, and a search finds one of them only.
NaiveScanWitness ==
    \E e1, e2 \in Known :
        /\ e1 # e2
        /\ Fresh(e1) /\ Fresh(e2)
        /\ CellsOf(e1) \cap CellsOf(e2) # {}
        /\ ~Overlap(objBounds[e1], objBounds[e2])
        /\ \E Q \in Queries :
            /\ Found(Q) = {e1}
            /\ CellsOf(e2) \cap CellRange(Q, cellSize) # {}

\* C3 as stated: search judges an object in the hash by the bounds last
\* passed to put / update for it.
StaleJudgedByRecord ==
    \A e \in Known :
        given[e] # <<>> =>
            \A Q \in Queries : (e \in Found(Q)) <=> Overlap(LastGiven(e), Q)

\* C3 as amended: search finds its candidates through the cells of the bounds
\* passed to put / update and judges each by the bounds the object has at the
\* time of the search: e is returned exactly when the cells visited for Q
\* meet the cells visited for some bounds passed for e and e's present bounds
\* intersect Q.
StaleJudgedByOwnBounds ==
    \A e \in Known, Q \in Queries :
        (e \in Found(Q)) <=>
            /\ Overlap(objBounds[e], Q)
            /\ \E i \in 1..Len(given[e]) :
                Visited(given[e][i], cellSize) \cap Visited(Q, cellSize) # {}

\* C3's case: an object in the hash whose bounds are no longer those passed;
\* a rectangle overlapping the passed bounds does not find it, and one that
\* does not overlap them does.
StaleWitness ==
    \E e \in Known :
        /\ given[e] # <<>>
        /\ ~Fresh(e)
        /\ \E Q \in Queries : Overlap(LastGiven(e), Q) /\ e \notin Found(Q)
        /\ \E Q \in Queries : ~Overlap(LastGiven(e), Q) /\ e \in Found(Q)

\* C4: after remove(e), e is in no bucket and in no search result, whatever
\* bounds it was put with and whatever its bounds are now.
RemoveClears ==
    last.op = "remove" =>
        /\ CellsOf(last.object) = {}
        /\ \A Q \in Queries : last.object \notin Found(Q)

\* C4's case: the removed object had been put twice, with different bounds.
RemoveClearsWitness ==
    /\ last.op = "remove"
    /\ Len(last.was) >= 2
    /\ last.was[1] # last.was[2]
    /\ DOMAIN buckets # {}

\* C5 as stated: after put(e, B1) then update(e, B2), B1 and B2 disjoint, a
\* search over B1 does not return e and a search over B2 returns it.
UpdateMoves ==
    last.op = "update" =>
        \A i \in 1..Len(last.was) :
            ~Overlap(last.was[i], last.bounds) =>
                /\ last.object \notin Found(last.was[i])
                /\ last.object \in Found(last.bounds)

\* C5 as amended: the same, where B2 are the bounds e has when searched.
UpdateMovesFresh ==
    (last.op = "update" /\ objBounds[last.object] = last.bounds) =>
        \A i \in 1..Len(last.was) :
            ~Overlap(last.was[i], last.bounds) =>
                /\ last.object \notin Found(last.was[i])
                /\ last.object \in Found(last.bounds)

\* C5's case: the object was put with B1 and updated to its own bounds B2,
\* disjoint from B1 and in a cell B1 overlaps too.
UpdateMovesWitness ==
    /\ last.op = "update"
    /\ objBounds[last.object] = last.bounds
    /\ Len(last.was) = 1
    /\ ~Overlap(last.was[1], last.bounds)
    /\ CellRange(last.was[1], cellSize) \cap CellRange(last.bounds, cellSize) # {}

\* C6: after reset(), and until the next put or update, every bucket is empty
\* and every search returns the empty set.
ResetTotal ==
    (last.op = "reset" \/ \A e \in Known : given[e] = <<>>) =>
        /\ AllEmpty
        /\ \A Q \in Queries : Returned(Q) = <<>>

\* C6's case: a reset of a hash that held objects in several buckets.
ResetTotalWitness ==
    /\ last.op = "reset"
    /\ Cardinality(DOMAIN buckets) >= 2
    /\ nOps >= 3

\* C7 as stated: every object in the hash is a member of exactly the buckets
\* of the cells overlapped by the bounds last given for it.
ExactFootprint ==
    \A e \in Known :
        CellsOf(e) = IF given[e] = <<>> THEN {} ELSE CellRange(LastGiven(e), cellSize)

\* C7 as amended: every object in the hash is a member of exactly the buckets
\* of the cells visited for the bounds given for it by update or put since
\* it was last removed; a second put leaves it in the cells of the first.
FootprintOfAllPuts ==
    \A e \in Known :
        CellsOf(e) = UNION {Visited(given[e][i], cellSize) : i \in 1..Len(given[e])}

\* C7's case: an object put twice is still in a cell of the earlier bounds
\* that the later bounds do not overlap.
FootprintWitness ==
    \E e \in Known :
        /\ Len(given[e]) = 2
        /\ CellsOf(e) \ CellRange(LastGiven(e), cellSize) # {}
        /\ CellRange(LastGiven(e), cellSize) \subseteq CellsOf(e)

\* C8: put(e, B) right after put(e, B) changes no bucket and no search result.
IdempotentPut ==
    [][\A e \in Known, B \in Rects :
        (last = [op |-> "put", object |-> e, bounds |-> B] /\ Put(e, B)) =>
            /\ buckets' = buckets
            /\ \A Q \in Rects :
                search(buckets', objBounds', Q, cellSize') = Returned(Q)]_vars

\* C8's case: the same put was applied twice, to an object spanning cells.
IdempotentPutWitness ==
    /\ last.op = "put"
    /\ Len(given[last.object]) >= 2
    /\ given[last.object][Len(given[last.object]) - 1] = last.bounds
    /\ Cardinality(CellsOf(last.object)) >= 2
    /\ \E e \in Known : e # last.object /\ CellsOf(e) \cap CellsOf(last.object) # {}

\* C9: cell size 100, the four rectangles of the test put: six bucket keys,
\* and the search of (-50, -50, 100, 100) returns the fourth and only it.
CellBoundaryScenario ==
    (cellSize = ScenarioCellSize /\ \A c \in Containers : given[c] # <<>>) =>
        /\ Cardinality(DOMAIN buckets) = 6
        /\ Found(TestQuery) = {"container3"}

\* C9's case: the four were put and the test's search made.
CellBoundaryWitness ==
    /\ \A c \in Containers : given[c] # <<>>
    /\ last.op = "search"
    /\ last.bounds = TestQuery
    /\ last.result = <<"container3">>

\* The object is in the hash under its own bounds, which span several cells.
SpansCells(e) == Fresh(e) /\ Cardinality(CellRange(objBounds[e], cellSize)) >= 2

\* The object's bounds span two cells or more on each axis.
SpansBothAxes(e) ==
    /\ Left(objBounds[e]) \div cellSize < Right(objBounds[e]) \div cellSize
    /\ Top(objBounds[e]) \div cellSize < Bottom(objBounds[e]) \div cellSize

\* C10 as stated: an object whose bounds span several cells is exactly once
\* in the result of a search whose rectangle overlaps all of those cells, and
\* no result holds an object twice.
MultiCellOnce ==
    \A Q \in Queries :
        LET r == Returned(Q)
        IN  /\ \A e \in Known : Count(e, r) <= 1
            /\ \A e \in Known :
                ( /\ SpansCells(e)
                  /\ CellRange(objBounds[e], cellSize) \subseteq CellRange(Q, cellSize) ) =>
                    Count(e, r) = 1

\* C10 as amended: such an object is exactly once in the result of a search
\* whose rectangle intersects its bounds, as is always so when the object
\* spans two cells on each axis and the rectangle overlaps all of them; no
\* result holds an object twice.
MultiCellOnceIntersecting ==
    \A Q \in Queries :
        LET r == Returned(Q)
        IN  /\ \A e \in Known : Count(e, r) <= 1
            /\ \A e \in Known :
                SpansCells(e) =>
                    /\ Overlap(objBounds[e], Q) => Count(e, r) = 1
                    /\ ( /\ SpansBothAxes(e)
                         /\ CellRange(objBounds[e], cellSize) \subseteq CellRange(Q, cellSize) ) =>
                            Count(e, r) = 1

\* C10's case: a search over all four cells of an object that spans two
\* cells on each axis returned it.
MultiCellWitness ==
    /\ last.op = "search"
    /\ \E e \in Known :
        /\ SpansCells(e)
        /\ SpansBothAxes(e)
        /\ Cardinality(CellsOf(e)) = 4
        /\ CellsOf(e) \subseteq CellRange(last.bounds, cellSize)
        /\ Count(e, last.result) = 1

\* C11: constructing a grid with a cell size that is not positive fails, so
\* no grid with cellSize <= 0 is ever reachable.
PositiveCellSize == cellSize > 0

Abs(n) == IF n < 0 THEN -n ELSE n

\* The cells the loops of hashBounds are to visit, C13's
\* (maxCx - minCx + 1) * (maxCy - minCy + 1), where a cell coordinate is
\* Math.floor(edge / cellSize); on a grid of negative cell size, where the
\* cell of the right edge is below that of the left, the distance between them.
CellsToVisit(bounds, cs) ==
    IF cs = 0
    THEN 0
    ELSE (Abs(FloorDiv(Right(bounds), cs) - FloorDiv(Left(bounds), cs)) + 1)
            * (Abs(FloorDiv(Bottom(bounds), cs) - FloorDiv(Top(bounds), cs)) + 1)

\* C13: on every grid that can be constructed and for every bounds, the loops
\* of hashBounds end after visiting (maxCx - minCx + 1) * (maxCy - minCy + 1)
\* cells: a call never visits more.
HashBoundsEnds ==
    loop # Idle => loop.visited <= CellsToVisit(loop.bounds, cellSize)

\* Bounds are malformed when left > right or top > bottom.
Malformed(r) == Left(r) > Right(r) \/ Top(r) > Bottom(r)

\* C12: put(e, B) and update(e, B) with malformed bounds fail before any
\* bucket is touched: the bucket map is left exactly as it was.
BoundsValidated ==
    [][(last'.op \in {"put", "update"} /\ Malformed(last'.bounds)) =>
            buckets' = buckets]_vars

\* C14: remove(e) for an object that is in no bucket leaves the bucket map,
\* its keys and the members of every bucket, as it was.
RemoveAbsentNoOp ==
    [][\A e \in Known :
        (CellsOf(e) = {} /\ last'.op = "remove" /\ last'.object = e) =>
            buckets' = buckets]_vars

\* C14's case: an absent object was removed from a hash that holds another.
RemoveAbsentWitness ==
    /\ last.op = "remove"
    /\ last.was = <<>>
    /\ \E k \in DOMAIN buckets : buckets[k] # <<>>
    /\ \E k \in DOMAIN buckets : buckets[k] = <<>>

\* C15: search(Q) leaves the bucket map as it was: it adds no key and changes
\* no bucket, also when Q lies over cells that have no bucket.
SearchReadOnly ==
    [][last'.op = "search" => buckets' = buckets]_vars

\* C15's case: a search over cells without a bucket, in a hash that holds
\* objects elsewhere, returned the empty set.
SearchReadOnlyWitness ==
    /\ last.op = "search"
    /\ CellRange(last.bounds, cellSize) \cap DOMAIN buckets = {}
    /\ \E k \in DOMAIN buckets : buckets[k] # <<>>
    /\ last.result = <<>>

\* C16: update(e, B) yields the bucket map that remove(e) followed by
\* put(e, B) yields, in one step: in the state after it e is in the cells
\* visited for B, and there is no state in between for a search to see.
UpdateIsRemovePut ==
    [][last'.op = "update" =>
        /\ buckets' = put(remove(buckets, last'.object), last'.object,
                          last'.bounds, cellSize)
        /\ {k \in DOMAIN buckets' : last'.object \in Elems(buckets'[k])}
                = Visited(last'.bounds, cellSize)]_vars

\* C16's case: the update took the object out of a cell of its earlier bounds
\* and into a cell it was not in.
UpdateIsRemovePutWitness ==
    /\ last.op = "update"
    /\ last.was # <<>>
    /\ CellRange(last.was[1], cellSize) \ CellsOf(last.object) # {}
    /\ CellsOf(last.object) \ CellRange(last.was[1], cellSize) # {}

\* The registered hash-targets and their direct and indirect children.
Hashed == UNION {Subtree(children, t) : t \in Elems(hashTargets)}

\* The bounds as last calculated of every hash-target and descendant are its
\* bounds now.
UpToDate == \A o \in Hashed : cachedBounds[o] = objBounds[o]

\* Every search returns exactly the hash-targets and descendants whose bounds
\* intersect the query.
ExactlyHashed ==
    \A Q \in Queries : Found(Q) = {o \in Hashed : Overlap(objBounds[o], Q)}

\* C17: after SpatialHashSystem.update(), every search(Q) returns exactly the
\* registered hash-targets and their direct and indirect children whose
\* bounds intersect Q, and nothing that only an earlier update had put.
SystemUpdateRebuilds == last.op = "systemUpdate" => ExactlyHashed

\* C17, amended: the same, after an update() that recalculated the bounds
\* (skipBoundsUpdate false, as constructed) or that found the calculated
\* bounds of every hash-target and descendant up to date.
SystemUpdateRebuildsCalculated ==
    (last.op = "systemUpdate" /\ (~skipBoundsUpdate \/ UpToDate)) => ExactlyHashed

\* An update that recalculated the bounds has dropped an object an earlier
\* update had put, and kept objects of which a search returns some and not
\* others.
SystemUpdateRebuildsWitness ==
    /\ last.op = "systemUpdate"
    /\ ~skipBoundsUpdate
    /\ last.was \ Hashed # {}
    /\ \E Q \in Queries : Found(Q) # {} /\ Hashed \ Found(Q) # {}

\* C18: search called with a display-object returns the same set as search
\* called with the rectangle of that display-object's bounds.
SearchByObject ==
    (last.op = "systemSearch" /\ hasGetBounds(last.arg))
        => Elems(last.result)
             = Elems(systemSearch(buckets, objBounds, objBounds[last.arg.getBounds], cellSize))

\* C19: after any sequence of setTicker calls, with tickers or null, the
\* update callback is registered, once, on the ticker stored in updateTicker
\* and on no other ticker: every ticker set before has had it removed, and
\* after setTicker(null) no ticker holds it.
SingleRegistration ==
    \A t \in Tickers : listeners[t] = (IF t = updateTicker THEN 1 ELSE 0)

\* setTicker(null) has been called while a ticker was stored.
SingleRegistrationWitness ==
    /\ last.op = "setTicker"
    /\ last.was \in Tickers
    /\ last.ticker # last.was
    /\ \E t \in Tickers : t # last.was /\ t # updateTicker

\* C20: prerender() invokes update exactly when updateBeforeRender is true;
\* the flag is true from construction; setTicker with a ticker sets it to
\* false and no operation of the system sets it back, so that from then on a
\* prerender performs no update, a tick of the ticker set performs one, and a
\* frame of one tick and several renders performs one update.
PrerenderGating ==
    /\ [](/\ last.op = "new" => updateBeforeRender
          /\ (last.op = "prerender" /\ Frame.ticked /\ ~updateBeforeRender)
                => Frame.updates = 1)
    /\ [][/\ last'.op = "prerender"
                => updates' = updates + (IF updateBeforeRender THEN 1 ELSE 0)
          /\ (last'.op = "setTicker" /\ last'.ticker # Null) => ~updateBeforeRender'
          /\ (last'.op = "setTicker" /\ last'.ticker = Null)
                => updateBeforeRender' = updateBeforeRender
          /\ (updateBeforeRender' /\ ~updateBeforeRender) => last'.op = "updateBeforeRender"
          /\ last'.op = "tick"
                => updates' = updates + (IF last'.ticker = updateTicker THEN 1 ELSE 0)]_vars

\* With a ticker set, a frame of one tick and two renders has performed
\* one update.
PrerenderGatingWitness ==
    /\ last.op = "prerender"
    /\ updateTicker \in Tickers
    /\ Frame.ticked
    /\ Frame.renders >= 2
    /\ Frame.updates = 1
    /\ updates = 1

\* The buckets of the lib/SpatialHash.js grid an object is a member of.
LibCellsOf(e) == {k \in DOMAIN libBuckets : e \in Elems(libBuckets[k])}

\* C21: put returns the grid it was called on, so that hash.put(a).put(b)
\* inserts both a and b into the same grid.
PutChainable ==
    last.op = "putChain"
        => /\ \A i \in 1..Len(last.returned) : last.returned[i] = This
           /\ \A e \in {last.first, last.second} : CellsOf(e) # {} /\ LibCellsOf(e) # {}

\* C22: no operation of the grid (put, remove, update, search, reset) and no
\* update of the system changes cellSize; the grid of a system has the value
\* SCENE_CELL_SIZE had when the system was constructed, and keeps it when
\* SCENE_CELL_SIZE is changed afterwards.
CellSizeFixed ==
    /\ [](last.op = "new" => cellSize = staticCellSize)
    /\ [][cellSize' = cellSize]_vars

\* SCENE_CELL_SIZE has been changed after construction, and the system has
\* then put its targets into the grid, whose cell size is the old value.
CellSizeFixedWitness ==
    /\ staticCellSize # cellSize
    /\ last.op = "systemUpdate"
    /\ \E k \in DOMAIN buckets : buckets[k] # <<>>

\* C23: for well-formed bounds and a positive cell size, hashBounds visits
\* each cell (cx, cy) with floor(left / cellSize) <= cx <= floor(right /
\* cellSize) and floor(top / cellSize) <= cy <= floor(bottom / cellSize)
\* exactly once and no other cell: a right edge on a cell boundary includes
\* the next cell, and negative coordinates map to negative cells.
CellRangeVisited ==
    last.op \in {"put", "update", "search"}
        => LET hashes == hashBounds(last.bounds, cellSize)
           IN  /\ Elems(hashes) = CellRange(last.bounds, cellSize)
               /\ Len(hashes) = Cardinality(CellRange(last.bounds, cellSize))

\* The objects other than e in the bucket of a key; none if there is no bucket.
OthersIn(b, k, e) == IF k \in DOMAIN b THEN Elems(b[k]) \ {e} ELSE {}

\* C24: put(e, B), remove(e) and update(e, B) leave the bucket membership of
\* every entity other than e unchanged, and change no bucket outside the
\* cells e was in before and the cells of B.
OthersUndisturbed ==
    [][last'.op \in {"put", "remove", "update"} =>
        LET e == last'.object
            footprint == CellsOf(e) \cup
                         (IF last'.op = "remove"
                          THEN {}
                          ELSE CellRange(last'.bounds, cellSize))
        IN  /\ \A k \in DOMAIN buckets \cup DOMAIN buckets' :
                    OthersIn(buckets', k, e) = OthersIn(buckets, k, e)
            /\ \A k \in (DOMAIN buckets \cup DOMAIN buckets') \ footprint :
                    /\ k \in DOMAIN buckets
                    /\ k \in DOMAIN buckets'
                    /\ buckets'[k] = buckets[k]]_vars

\* C25: bucket keys are never discarded. Over put, remove, update and reset
\* the set of keys only grows: remove and reset leave it as it is, the
\* buckets empty, and a put or update adds the cells it visits, so that the
\* keys are the cells touched by any put since construction.
KeysKept ==
    [][DOMAIN buckets' =
        DOMAIN buckets \cup
            (IF last'.op \in {"put", "update"}
             THEN Visited(last'.bounds, cellSize)
             ELSE {})]_vars

\* After a remove every bucket is empty and two keys or more are still there.
KeysKeptWitness ==
    /\ last.op = "remove"
    /\ AllEmpty
    /\ Cardinality(DOMAIN buckets) >= 2

\* C26: the hashBounds of lib/SpatialHash.js, with | 0 in place of
\* Math.floor, visits the same set of cells as the hashBounds of the
\* SpatialHash, for every cell size and every bounds, negative coordinates
\* included.
TruncatingVisitsSame ==
    last.op \in {"put", "update", "search"}
        => Elems(libHashBounds(last.bounds, cellSize)) = Visited(last.bounds, cellSize)

\* What the search of lib/SpatialHash.js returns for Q in this state.
LibFound(Q) == Elems(libSearch(libBuckets, Q, cellSize))

\* The object's own bounds are those last passed to the lib/SpatialHash.js
\* grid for it.
LibFresh(e) == libGiven[e] # <<>> /\ objBounds[e] = libGiven[e][Len(libGiven[e])]

\* C27 as stated: the search of lib/SpatialHash.js never misses: every object
\* put into the grid whose bounds intersect Q is in its result, for all
\* bounds, negative coordinates included.
CoarseNeverMisses ==
    \A Q \in LibRects, e \in Known :
        (libGiven[e] # <<>> /\ Overlap(objBounds[e], Q)) => e \in LibFound(Q)

\* C27 as amended: every object whose bounds are those last passed to the grid
\* for it and intersect Q is in the result of the search of
\* lib/SpatialHash.js, negative coordinates included.
CoarseNeverMissesFresh ==
    \A Q \in LibRects, e \in Known :
        (LibFresh(e) /\ Overlap(objBounds[e], Q)) => e \in LibFound(Q)

\* A search of lib/SpatialHash.js has returned an object with the bounds it
\* was put with, below zero where truncation and floor give other cells, and
\* it returns the object for a rectangle that does not intersect it as well.
CoarseNeverMissesWitness ==
    /\ last.op = "search"
    /\ \E e \in Known :
            /\ LibFresh(e)
            /\ Bottom(objBounds[e]) < 0
            /\ Elems(libHashBounds(objBounds[e], cellSize)) # Visited(objBounds[e], cellSize)
            /\ Overlap(objBounds[e], last.bounds)
            /\ e \in LibFound(last.bounds)
            /\ \E Q \in LibRects : ~Overlap(objBounds[e], Q) /\ e \in LibFound(Q)

\* C28: setTicker(null) removes the update callback from the ticker that was
\* set and leaves updateBeforeRender as it was; after setTicker with a ticker
\* followed by setTicker(null) no ticker holds the callback and the flag is
\* false, no tick and no prerender event runs update, and the hash changes
\* only by a call of update().
ClearedTickerStaysManual ==
    /\ [](Cleared => /\ updateTicker = Null
                     /\ ~updateBeforeRender
                     /\ \A t \in Tickers : listeners[t] = 0)
    /\ [][/\ (last'.op = "setTicker" /\ last'.ticker = Null)
                => /\ updateBeforeRender' = updateBeforeRender
                   /\ updateTicker # Null => listeners'[updateTicker] = 0
          /\ (Cleared /\ last'.op \in {"tick", "prerender"})
                => updates' = updates /\ buckets' = buckets
          /\ (Cleared /\ (updates' # updates \/ buckets' # buckets))
                => last'.op = "update"]_vars

\* After setTicker with a ticker and setTicker(null), with a target
\* registered, a tick or a prerender event has passed without an update.
ClearedTickerStaysManualWitness ==
    /\ Cleared
    /\ last.op \in {"tick", "prerender"}
    /\ hashTargets # <<>>
    /\ updates = 0
    /\ AllEmpty

====
